---- MODULE Spec2Model ----
(***************************************************************************)
(* AudioDiary (Chronicle) backend: the request flows of the chat, ASR and  *)
(* TTS endpoints over the process-wide state of utils/dependencies.py.     *)
(*                                                                         *)
(* The service runs on one asyncio event loop: the code between two awaits *)
(* of a handler runs without interleaving, and the await of a remote call  *)
(* (LLM, ASR, TTS) is the suspension point at which other requests run.    *)
(* Each action below is one such uninterrupted stretch of a handler.       *)
(*                                                                         *)
(* Strings are run-length encoded: a sequence of runs [ch, n], n >= 1, so  *)
(* that len() and strip() are computed as Python computes them, also for   *)
(* texts around the 2000 character ceiling.                                *)
(***************************************************************************)
EXTENDS Integers, Sequences, FiniteSets, TLC

VARIABLES
    phase,                    \* lifespan: "starting", "serving", "stopped", "failed"
    hf_client,                \* dependencies._hf_client (NULL or a handle)
    llm_chain,                \* dependencies._llm_chain (NULL or a handle)
    conversation_memory,      \* dependencies._conversation_memory: user id -> messages
    conversation_memory_size, \* settings.conversation_memory_size (configuration)
    temp_audio,               \* the files of TEMP_AUDIO_DIR: name -> content and age
    io_errors,                \* the files stat() or unlink() raised for in the reap (history)
    tasks,                    \* the requests in flight, one record per handler task
    nextReq                   \* number of requests received so far (request ids)

vars == <<phase, hf_client, llm_chain, conversation_memory,
          conversation_memory_size, temp_audio, io_errors, tasks, nextReq>>

----------------------------------------------------------------------------
\* Bounds of the model.

\* handler tasks that can be in flight at once
NumTasks == 2
\* requests received over the life of the process
MaxRequests == 2
\* the configured conversation window explored (the setting allows 1..20)
MaxWindow == 1
\* oldest file age told apart, in clock ticks
MaxAge == 1

Tasks == 1..NumTasks

NULL == "None"
HF_HANDLE == "AsyncInferenceClient"
LLM_HANDLE == "ChatModel"

----------------------------------------------------------------------------
\* Strings.

Whitespace == {" ", "\n", "\t"}

Run(ch, n) == [ch |-> ch, n |-> n]

\* len(s)
RECURSIVE len(_)
len(s) ==
    IF s = <<>> THEN 0 ELSE Head(s).n + len(Tail(s))

RECURSIVE lstrip(_)
lstrip(s) ==
    IF s = <<>> THEN s
    ELSE IF Head(s).ch \in Whitespace THEN lstrip(Tail(s)) ELSE s

RECURSIVE rstrip(_)
rstrip(s) ==
    IF s = <<>> THEN s
    ELSE IF s[Len(s)].ch \in Whitespace THEN rstrip(SubSeq(s, 1, Len(s) - 1)) ELSE s

\* s.strip()
strip(s) == rstrip(lstrip(s))

\* Python truthiness of a str: "not s" is s == ""
falsy(s) == s = <<>>

EMPTY == <<>>
BLANK == <<Run(" ", 1)>>
PADDED_TEXT == <<Run(" ", 1), Run("b", 2), Run("\n", 1)>>

----------------------------------------------------------------------------
\* Inputs.

\* ChatRequest.user_id: Optional[str]
RequestUserIds == {NULL, "", "alice"}

\* ChatRequest.message after the schema's validator: stripped and not empty
Messages == {<<Run("r", 5), Run(" ", 1), Run("d", 3)>>}

\* texts a chat model can answer with
Replies == {EMPTY, BLANK, PADDED_TEXT}

\* settings.max_audio_file_size_mb (default)
max_audio_file_size_mb == 25
max_audio_file_size_bytes == max_audio_file_size_mb * 1024 * 1024

\* settings.allowed_audio_formats (default)
allowed_audio_formats == {"audio/wav", "audio/mpeg", "audio/mp4", "audio/x-m4a"}

\* TTSRequest.text: max_length of the schema, and the ceiling of
\* validate_text_for_tts
TTSRequest_max_length == 2000
TTS_MAX_CHARS == 2000

\* uploads: declared content type and byte length
UploadTypes == {"audio/wav", "text/plain"}
UploadSizes == {0, 10, max_audio_file_size_bytes, max_audio_file_size_bytes + 1}

\* what the ASR endpoint can answer: an object with a text field (or
\* without one), a bare string, or another object, whose str() is the text
AsrResults ==
    {[shape |-> "dict", text |-> PADDED_TEXT], [shape |-> "dict", text |-> BLANK],
     [shape |-> "dict_without_text", text |-> EMPTY],
     [shape |-> "str", text |-> PADDED_TEXT],
     [shape |-> "other", text |-> <<Run("o", 4)>>]}

\* TTSRequest.text as posted
TtsTexts ==
    {EMPTY, BLANK, PADDED_TEXT, <<Run("a", TTS_MAX_CHARS)>>,
     <<Run("a", TTS_MAX_CHARS + 1)>>, <<Run(" ", 1), Run("a", TTS_MAX_CHARS)>>}

\* str(e) of the exception a remote call (LLM, ASR, TTS) raises: the
\* provider's own error text
ProviderErrors == {"503 Service Unavailable: model is overloaded"}

\* audio the TTS endpoint can answer with (bytes), b"" among them
AudioReplies == {<<>>, <<82, 73, 70, 70>>, <<82, 73, 70, 88>>}

----------------------------------------------------------------------------
\* Conversation store (utils/dependencies.py).

\* HumanMessage / AIMessage held by a ChatMessageHistory. req is a history
\* variable, the request that appended the message; no operation reads it.
HumanMessage(content, req) == [type |-> "human", content |-> content, req |-> req]
AIMessage(content, req) == [type |-> "ai", content |-> content, req |-> req]

NoMemory == [u \in {} |-> <<>>]

\* get_conversation_memory: the dictionary after the call; the history returned
\* is get_conversation_memory(cm, user_id)[user_id]. ChatMessageHistory() is an
\* unbounded list of messages: settings.conversation_memory_size is not read.
get_conversation_memory(cm, user_id) ==
    IF user_id \in DOMAIN cm THEN cm
    ELSE [u \in DOMAIN cm \cup {user_id} |-> IF u = user_id THEN <<>> ELSE cm[u]]

\* faulty variant: the reply is stored stripped
save_context_stripped(cm, user_id, input, output, req) ==
    [cm EXCEPT ![user_id] = cm[user_id] \o
        <<HumanMessage(input, req), AIMessage(rstrip(lstrip(output)), req)>>]

\* faulty variant: one message list shared by every ChatMessageHistory
save_context_shared(cm, user_id, input, output, req) ==
    [u \in DOMAIN cm |-> cm[u] \o
        <<HumanMessage(input, req), AIMessage(output, req)>>]

\* What ConversationChain does with its memory once the model has answered:
\* the input and the output are added, in that order and in one synchronous
\* call, to the messages of the history the chain was built with.
save_context(cm, user_id, input, output, req) ==
    [cm EXCEPT ![user_id] = cm[user_id] \o
        <<HumanMessage(input, req), AIMessage(output, req)>>]

\* the messages of user_id, none when no history was created yet
History(user_id) ==
    IF user_id \in DOMAIN conversation_memory
        THEN conversation_memory[user_id] ELSE <<>>

\* faulty variant: only an absent user_id is given the default
effective_user_id_absentOnly(user_id) ==
    IF user_id = NULL THEN "default" ELSE user_id

\* request.user_id or "default"
effective_user_id(user_id) ==
    IF user_id = NULL \/ user_id = "" THEN "default" ELSE user_id

UserIds == {effective_user_id(u) : u \in RequestUserIds}

\* the configured bound in entries: conversation_memory_size exchanges
WindowEntries == 2 * conversation_memory_size

----------------------------------------------------------------------------
\* Chat prompt (utils/chat_utils.py, CBT_PROMPT_TEMPLATE): the fixed
\* instruction, {chat_history}, "User: {input}", the closing cue line.

SystemPart == [part |-> "system", text |-> "CBT journaling assistant guidelines"]
HistoryPart(m) == [part |-> "chat_history", message |-> m]
InputPart(m) == [part |-> "input", text |-> m]
CuePart == [part |-> "cue", text |-> "Your supportive response:"]

HistoryParts(h) == [i \in 1..Len(h) |-> HistoryPart(h[i])]

\* faulty variant: the new message is placed before the history
format_prompt_inputFirst(chat_history, input) ==
    <<SystemPart, InputPart(input)>> \o HistoryParts(chat_history) \o <<CuePart>>

\* CBT_PROMPT formatted by the chain with the memory's messages and the input
format_prompt(chat_history, input) ==
    <<SystemPart>> \o HistoryParts(chat_history) \o <<InputPart(input), CuePart>>

\* the messages a prompt carries as chat history
PromptHistory(prompt) ==
    [i \in 1..(Len(prompt) - 3) |-> prompt[i + 1].message]

----------------------------------------------------------------------------
\* Temporary audio files (utils/tts_utils.py).

NoFiles == [f \in {} |-> <<>>]

\* generate_audio_filename: audio_<first 12 hex digits of md5(text)>.wav; the
\* digest is kept as the text it is the digest of
generate_audio_filename(text) ==
    [prefix |-> "audio_", md5_12 |-> text, suffix |-> ".wav"]

\* faulty variant: an existing file is left as it is
save_audio_file_keepsFirst(files, audio_bytes, filename) ==
    [f \in DOMAIN files \cup {filename} |->
        IF f \in DOMAIN files THEN files[f] ELSE [content |-> audio_bytes, age |-> 0]]

\* save_audio_file: open(filepath, "wb") and write; the file is new or
\* truncated, its modification time is now
save_audio_file(files, audio_bytes, filename) ==
    [f \in DOMAIN files \cup {filename} |->
        IF f = filename THEN [content |-> audio_bytes, age |-> 0] ELSE files[f]]

\* the orders in which glob("audio_*.wav") can yield the files
GlobOrders(files) ==
    {order \in [1..Cardinality(DOMAIN files) -> DOMAIN files] :
        \A i, j \in DOMAIN order : i # j => order[i] # order[j]}

unlink(files, filepath) == [f \in DOMAIN files \ {filepath} |-> files[f]]

\* cleanup_old_audio_files: the files are visited in glob order and a file
\* whose age exceeds max_age_seconds is unlinked; failing are the files for
\* which stat() or unlink() raises: the one try around the loop catches the
\* exception, logs a warning, and the function returns with the files as
\* they are at that point
RECURSIVE cleanup_old_audio_files(_, _, _, _)
cleanup_old_audio_files(files, order, max_age_seconds, failing) ==
    IF order = <<>> THEN files
    ELSE LET filepath == Head(order)
         IN IF filepath \in failing THEN files
            ELSE IF files[filepath].age > max_age_seconds
            THEN cleanup_old_audio_files(unlink(files, filepath), Tail(order),
                     max_age_seconds, failing)
            ELSE cleanup_old_audio_files(files, Tail(order), max_age_seconds, failing)

----------------------------------------------------------------------------
\* Handler tasks.

\* a handler task: its position, the request it serves (what was received,
\* what was sent to the remote endpoint, what the endpoint answered) and the
\* response it built
IdleTask ==
    [pc |-> "idle", kind |-> "none", req |-> 0,
     request_user_id |-> NULL, user_id |-> NULL,
     text |-> <<>>, input |-> <<>>, prompt |-> <<>>,
     content_type |-> NULL, size |-> 0, calls |-> 0,
     shape |-> "none", reply |-> <<>>, audio |-> <<>>,
     status |-> 0, error |-> "none", body |-> <<>>, language |-> NULL,
     detail |-> <<>>]

Init ==
    /\ phase = "starting"
    /\ hf_client = NULL
    /\ llm_chain = NULL
    /\ conversation_memory = NoMemory
    /\ conversation_memory_size = MaxWindow
    /\ temp_audio = NoFiles
    /\ io_errors = {}
    /\ tasks = [t \in Tasks |-> IdleTask]
    /\ nextReq = 0

\* Settings.llm_provider: the values the settings accept
LlmProviders == {"openai", "anthropic", "cohere", "huggingface"}

\* initialize_clients: the two globals after the call and whether it raised.
\* The HuggingFace client is assigned first. ChatOpenAI and ChatAnthropic are
\* imported inside the branch that builds them, which makes them local names
\* of the function: the else branch reads ChatOpenAI without an import having
\* bound it, the UnboundLocalError is logged and re-raised.
initialize_clients(llm_provider) ==
    IF llm_provider \in {"germini", "openai", "anthropic"}
    THEN [hf_client |-> HF_HANDLE, llm_chain |-> LLM_HANDLE, raises |-> FALSE]
    ELSE [hf_client |-> HF_HANDLE, llm_chain |-> NULL, raises |-> TRUE]

\* lifespan startup: initialize_clients(); when it raises the lifespan
\* re-raises and the application does not start serving
Startup(llm_provider) ==
    /\ phase = "starting"
    /\ LET after == initialize_clients(llm_provider)
       IN /\ hf_client' = after.hf_client
          /\ llm_chain' = after.llm_chain
          /\ phase' = IF after.raises THEN "failed" ELSE "serving"
    /\ UNCHANGED <<io_errors, conversation_memory, conversation_memory_size,
                   temp_audio, tasks, nextReq>>

\* lifespan shutdown, run once the server has drained its requests:
\* cleanup_clients(), cleanup_old_audio_files(max_age_seconds=0); order is the
\* order of the glob, failing the files the file system refuses to stat or
\* unlink
Shutdown(order, failing) ==
    /\ phase = "serving"
    /\ \A t \in Tasks : tasks[t].pc = "idle"
    /\ phase' = "stopped"
    /\ hf_client' = NULL
    /\ llm_chain' = NULL
    /\ conversation_memory' = NoMemory
    /\ temp_audio' = cleanup_old_audio_files(temp_audio, order, 0, failing)
    /\ io_errors' = failing
    /\ UNCHANGED <<conversation_memory_size, tasks, nextReq>>

\* a new request runs in the first free task (tasks are interchangeable)
FreeTask(t) ==
    /\ tasks[t].pc = "idle"
    /\ \A s \in Tasks : s < t => tasks[s].pc # "idle"

\* a handler that has built its response (or raised its HTTPException); the
\* request object, the chain and its prompt are gone
Finished(task, status, error, body) ==
    [task EXCEPT !.pc = "done", !.request_user_id = NULL, !.prompt = <<>>,
        !.status = status, !.error = error, !.body = body]

\* a handler that raised HTTPException(status_code, detail); detail is the
\* sequence of the pieces the message is formatted from
Failed(task, status, error, detail) ==
    [Finished(task, status, error, <<>>) EXCEPT !.detail = detail]

\* the answer to an exception no handler catches (a dependency that raises)
InternalServerError == <<"Internal Server Error">>

\* faulty variant: the user message is added to the history before the model is called
ChatStart_savesUserFirst(t, request_user_id, message) ==
    /\ phase = "serving"
    /\ FreeTask(t)
    /\ nextReq < MaxRequests
    /\ nextReq' = nextReq + 1
    /\ LET user_id == effective_user_id(request_user_id)
           memory == get_conversation_memory(conversation_memory, user_id)
       IN /\ conversation_memory' = [memory EXCEPT ![user_id] =
                 memory[user_id] \o <<HumanMessage(message, nextReq + 1)>>]
          /\ tasks' = [tasks EXCEPT ![t] =
                 [IdleTask EXCEPT !.kind = "chat", !.req = nextReq + 1,
                     !.user_id = user_id, !.input = message,
                     !.pc = "awaiting",
                     !.prompt = format_prompt(memory[user_id], message),
                     !.calls = 1]]
    /\ UNCHANGED <<io_errors, phase, hf_client, llm_chain, conversation_memory_size, temp_audio>>

\* faulty variant: one lock for all users, held across the remote call
ChatStart_globalLock(t, request_user_id, message) ==
    /\ phase = "serving"
    /\ FreeTask(t)
    /\ nextReq < MaxRequests
    /\ \A s \in Tasks : tasks[s].pc # "awaiting"
    /\ nextReq' = nextReq + 1
    /\ LET user_id == effective_user_id(request_user_id)
           memory == get_conversation_memory(conversation_memory, user_id)
       IN /\ conversation_memory' = memory
          /\ tasks' = [tasks EXCEPT ![t] =
                 [IdleTask EXCEPT !.kind = "chat", !.req = nextReq + 1,
                     !.user_id = user_id, !.input = message,
                     !.pc = "awaiting",
                     !.prompt = format_prompt(memory[user_id], message),
                     !.calls = 1]]
    /\ UNCHANGED <<io_errors, phase, hf_client, llm_chain, conversation_memory_size, temp_audio>>

\* chat_endpoint up to the await of the chat model inside chain.ainvoke:
\* get_llm(), get_conversation_memory(user_id), create_conversation_chain,
\* the chain loads the memory, formats the prompt and calls the model.
ChatStart(t, request_user_id, message) ==
    /\ phase = "serving"
    /\ FreeTask(t)
    /\ nextReq < MaxRequests
    /\ nextReq' = nextReq + 1
    /\ LET user_id == effective_user_id(request_user_id)
           memory == get_conversation_memory(conversation_memory, user_id)
           started == [IdleTask EXCEPT !.kind = "chat", !.req = nextReq + 1,
                          !.request_user_id = request_user_id,
                          !.user_id = user_id, !.input = message]
       IN IF llm_chain = NULL
          THEN \* get_llm raises RuntimeError: except Exception -> 500
               /\ tasks' = [tasks EXCEPT ![t] =
                      Failed(started, 500, "RuntimeError",
                          <<"Chat response generation failed. Please try again.">>)]
               /\ UNCHANGED conversation_memory
          ELSE /\ conversation_memory' = memory
               /\ tasks' = [tasks EXCEPT ![t] =
                      [started EXCEPT !.pc = "awaiting",
                          !.prompt = format_prompt(memory[user_id], message),
                          !.calls = 1]]
    /\ UNCHANGED <<io_errors, phase, hf_client, llm_chain, conversation_memory_size, temp_audio>>

\* the chat model call raises e (provider error, timeout): generate_chat_response
\* wraps it in ChatError(f"Failed to generate response: {str(e)}"), chat_endpoint
\* answers 400 with detail=str(e)
ChatRemoteRaises(t, e) ==
    /\ tasks[t].pc = "awaiting"
    /\ tasks[t].kind = "chat"
    /\ tasks' = [tasks EXCEPT ![t] =
           Failed(tasks[t], 400, "ChatError", <<"Failed to generate response: ", e>>)]
    /\ UNCHANGED <<io_errors, phase, hf_client, llm_chain, conversation_memory,
                   conversation_memory_size, temp_audio, nextReq>>

\* faulty variant: the history read before the call is written back with the new pair
ChatRemoteReplies_lostUpdate(t, response_text) ==
    /\ tasks[t].pc = "awaiting"
    /\ tasks[t].kind = "chat"
    /\ conversation_memory' = [conversation_memory EXCEPT ![tasks[t].user_id] =
           PromptHistory(tasks[t].prompt) \o
               <<HumanMessage(tasks[t].input, tasks[t].req),
                 AIMessage(response_text, tasks[t].req)>>]
    /\ LET answered == [tasks[t] EXCEPT !.reply = response_text]
       IN tasks' = [tasks EXCEPT ![t] =
              IF falsy(response_text) \/ falsy(strip(response_text))
              THEN Finished(answered, 400, "ChatError", <<>>)
              ELSE Finished(answered, 200, "none", strip(response_text))]
    /\ UNCHANGED <<io_errors, phase, hf_client, llm_chain, conversation_memory_size,
                   temp_audio, nextReq>>

\* the chat model answers with text: the chain saves the exchange to its
\* memory and returns {"response": text}; generate_chat_response then rejects
\* an empty or all-whitespace text, else returns it stripped.
ChatRemoteReplies(t, response_text) ==
    /\ tasks[t].pc = "awaiting"
    /\ tasks[t].kind = "chat"
    /\ conversation_memory' =
           save_context(conversation_memory, tasks[t].user_id, tasks[t].input,
                        response_text, tasks[t].req)
    /\ LET answered == [tasks[t] EXCEPT !.reply = response_text]
       IN tasks' = [tasks EXCEPT ![t] =
              IF falsy(response_text) \/ falsy(strip(response_text))
              THEN Failed(answered, 400, "ChatError", <<"Generated response is empty">>)
              ELSE Finished(answered, 200, "none", strip(response_text))]
    /\ UNCHANGED <<io_errors, phase, hf_client, llm_chain, conversation_memory_size,
                   temp_audio, nextReq>>

\* faulty variant: one connected service is enough to report healthy
health_check_anyConnected(hf, llm) ==
    LET services == [huggingface |-> IF hf = NULL THEN "error" ELSE "connected",
                     llm |-> IF llm = NULL THEN "error" ELSE "connected"]
    IN [status |-> IF \E k \in DOMAIN services : services[k] = "connected"
                   THEN "healthy" ELSE "degraded",
        services |-> services]

\* health_check: get_hf_client() and get_llm() each give "connected", or
\* "error: ..." when they raise RuntimeError for a handle that is None; the
\* status is "healthy" when all services are "connected"
health_check(hf, llm) ==
    LET services ==
            [huggingface |-> IF hf = NULL
                             THEN "error: HuggingFace client not initialized"
                             ELSE "connected",
             llm |-> IF llm = NULL THEN "error: LLM not initialized" ELSE "connected"]
    IN [status |-> IF \A k \in DOMAIN services : services[k] = "connected"
                   THEN "healthy" ELSE "degraded",
        services |-> services]

\* GET /health: the handler has no await; it can be called at any point of
\* the life of the process
HealthCheck(t) ==
    /\ FreeTask(t)
    /\ nextReq < MaxRequests
    /\ nextReq' = nextReq + 1
    /\ tasks' = [tasks EXCEPT ![t] =
           Finished([IdleTask EXCEPT !.kind = "health", !.req = nextReq + 1],
               200, "none", <<health_check(hf_client, llm_chain)>>)]
    /\ UNCHANGED <<io_errors, phase, hf_client, llm_chain, conversation_memory,
                   conversation_memory_size, temp_audio>>

\* the response has been sent; the task ends
Respond(t) ==
    /\ tasks[t].pc = "done"
    /\ tasks' = [tasks EXCEPT ![t] = IdleTask]
    /\ UNCHANGED <<io_errors, phase, hf_client, llm_chain, conversation_memory,
                   conversation_memory_size, temp_audio, nextReq>>

----------------------------------------------------------------------------
\* ASR (utils/asr_utils.py, api_v1/endpoints/asr_endpoint.py).

\* faulty variant: an upload of exactly the ceiling is refused
validate_audio_file_atCeiling(content_type, file_size) ==
    IF content_type \notin allowed_audio_formats THEN "InvalidFormat"
    ELSE IF file_size >= max_audio_file_size_bytes THEN "TooLarge"
    ELSE IF file_size = 0 THEN "Empty"
    ELSE "ok"

\* validate_audio_file: the reason it raises ASRError for, or "ok"
validate_audio_file(content_type, file_size) ==
    IF content_type \notin allowed_audio_formats THEN "InvalidFormat"
    ELSE IF file_size > max_audio_file_size_bytes THEN "TooLarge"
    ELSE IF file_size = 0 THEN "Empty"
    ELSE "ok"

\* the message of the ASRError validate_audio_file raises, as the pieces it
\* is formatted from (numbers as their text)
validate_audio_file_message(verdict, content_type) ==
    IF verdict = "InvalidFormat"
    THEN <<"Invalid audio format: ", content_type, ". Allowed formats: ",
           "audio/wav, audio/mpeg, audio/mp4, audio/x-m4a">>
    ELSE IF verdict = "TooLarge"
    THEN <<"File too large: ", "25.0", "MB. Maximum allowed: ", "25", "MB">>
    ELSE <<"Empty audio file">>

\* faulty variant: the upload is sent to the ASR endpoint before it is validated
AsrStart_transcribesFirst(t, content_type, file_size) ==
    /\ phase = "serving"
    /\ FreeTask(t)
    /\ nextReq < MaxRequests
    /\ nextReq' = nextReq + 1
    /\ LET started == [IdleTask EXCEPT !.kind = "asr", !.req = nextReq + 1,
                          !.content_type = content_type, !.size = file_size,
                          !.calls = 1]
           verdict == validate_audio_file(content_type, file_size)
       IN tasks' = [tasks EXCEPT ![t] =
              IF verdict # "ok"
              THEN Finished(started, 400, verdict, <<>>)
              ELSE [started EXCEPT !.pc = "awaiting"]]
    /\ UNCHANGED <<io_errors, phase, hf_client, llm_chain, conversation_memory,
                   conversation_memory_size, temp_audio>>

\* transcribe_audio_endpoint up to the await of the ASR call:
\* process_audio_upload validates the file, reads it and calls the endpoint
AsrStart(t, content_type, file_size) ==
    /\ phase = "serving"
    /\ FreeTask(t)
    /\ nextReq < MaxRequests
    /\ nextReq' = nextReq + 1
    /\ LET started == [IdleTask EXCEPT !.kind = "asr", !.req = nextReq + 1,
                          !.content_type = content_type, !.size = file_size]
           verdict == validate_audio_file(content_type, file_size)
       IN tasks' = [tasks EXCEPT ![t] =
              IF hf_client = NULL
              THEN \* get_hf_client raises RuntimeError
                   Failed(started, 500, "RuntimeError", InternalServerError)
              ELSE IF verdict # "ok"
              THEN Failed(started, 400, verdict, validate_audio_file_message(verdict, content_type))
              ELSE [started EXCEPT !.pc = "awaiting", !.calls = 1]]
    /\ UNCHANGED <<io_errors, phase, hf_client, llm_chain, conversation_memory,
                   conversation_memory_size, temp_audio>>

\* faulty variant: a failed ASR call is issued once more before giving up
AsrRemoteRaises_retries(t, e) ==
    /\ tasks[t].pc = "awaiting"
    /\ tasks[t].kind = "asr"
    /\ tasks' = [tasks EXCEPT ![t] =
           IF tasks[t].calls < 2
           THEN [tasks[t] EXCEPT !.calls = tasks[t].calls + 1]
           ELSE Failed(tasks[t], 400, "TranscriptionFailed", <<"Transcription failed: ", e>>)]
    /\ UNCHANGED <<io_errors, phase, hf_client, llm_chain, conversation_memory,
                   conversation_memory_size, temp_audio, nextReq>>

\* the ASR call raises e: transcribe_audio wraps it in
\* ASRError(f"Transcription failed: {str(e)}"), answered 400 with detail=str(e)
AsrRemoteRaises(t, e) ==
    /\ tasks[t].pc = "awaiting"
    /\ tasks[t].kind = "asr"
    /\ tasks' = [tasks EXCEPT ![t] =
           Failed(tasks[t], 400, "TranscriptionFailed", <<"Transcription failed: ", e>>)]
    /\ UNCHANGED <<io_errors, phase, hf_client, llm_chain, conversation_memory,
                   conversation_memory_size, temp_audio, nextReq>>

\* faulty variant: only an object with a text field is understood
asr_text_dictOnly(result) ==
    IF result.shape = "dict" THEN result.text ELSE EMPTY

\* the text transcribe_audio takes from the endpoint's result:
\* result.get("text", "") of a dict, the string itself, str(result) otherwise
asr_text(result) ==
    IF result.shape = "dict" THEN result.text
    ELSE IF result.shape = "dict_without_text" THEN EMPTY
    ELSE IF result.shape = "str" THEN result.text
    ELSE result.text

\* the ASR call answers: the text is normalised, rejected when empty after
\* stripping, else returned stripped with language "en"
AsrRemoteReplies(t, result) ==
    /\ tasks[t].pc = "awaiting"
    /\ tasks[t].kind = "asr"
    /\ LET text == asr_text(result)
           answered == [tasks[t] EXCEPT !.shape = result.shape, !.reply = result.text]
       IN tasks' = [tasks EXCEPT ![t] =
              IF falsy(text) \/ falsy(strip(text))
              THEN Failed(answered, 400, "TranscriptionFailed",
                       <<"Transcription returned empty text">>)
              ELSE [Finished(answered, 200, "none", strip(text))
                       EXCEPT !.language = "en"]]
    /\ UNCHANGED <<io_errors, phase, hf_client, llm_chain, conversation_memory,
                   conversation_memory_size, temp_audio, nextReq>>

----------------------------------------------------------------------------
\* TTS (utils/tts_utils.py, api_v1/endpoints/tts_endpoint.py, TTSRequest).

\* TTSRequest: min_length=1 and max_length on the posted text, then
\* validate_text: the reason the request is refused for, or "ok"
TTSRequest_validate(text) ==
    IF len(text) < 1 THEN "Empty"
    ELSE IF len(text) > TTSRequest_max_length THEN "TooLong"
    ELSE IF falsy(strip(text)) THEN "Empty"
    ELSE "ok"

\* validate_text_for_tts: the reason it raises TTSError for, or "ok"
validate_text_for_tts(text) ==
    IF falsy(text) \/ falsy(strip(text)) THEN "Empty"
    ELSE IF len(text) > TTS_MAX_CHARS THEN "TooLong"
    ELSE "ok"

\* the message of the TTSError validate_text_for_tts raises
validate_text_for_tts_message(verdict) ==
    IF verdict = "Empty" THEN <<"Text cannot be empty">>
    ELSE <<"Text too long: ", "2001", " chars. Maximum: 2000 chars">>

\* faulty variant: the text is sent to synthesis as it was posted
TtsStart_sendsPosted(t, text) ==
    /\ phase = "serving"
    /\ FreeTask(t)
    /\ nextReq < MaxRequests
    /\ nextReq' = nextReq + 1
    /\ LET posted == [IdleTask EXCEPT !.kind = "tts", !.req = nextReq + 1,
                         !.text = text]
           started == [posted EXCEPT !.input = text]
       IN tasks' = [tasks EXCEPT ![t] =
              IF TTSRequest_validate(text) # "ok"
              THEN Finished([posted EXCEPT !.detail = <<"RequestValidationError">>],
                       422, TTSRequest_validate(text), <<>>)
              ELSE [started EXCEPT !.pc = "awaiting", !.calls = 1]]
    /\ UNCHANGED <<io_errors, phase, hf_client, llm_chain, conversation_memory,
                   conversation_memory_size, temp_audio>>

\* text_to_speech_endpoint up to the await of the TTS call: the schema
\* validates and strips the text, process_tts_request validates it again and
\* text_to_speech calls the endpoint with it
TtsStart(t, text) ==
    /\ phase = "serving"
    /\ FreeTask(t)
    /\ nextReq < MaxRequests
    /\ nextReq' = nextReq + 1
    /\ LET posted == [IdleTask EXCEPT !.kind = "tts", !.req = nextReq + 1,
                         !.text = text]
           request_text == strip(text)
           started == [posted EXCEPT !.input = request_text]
       IN tasks' = [tasks EXCEPT ![t] =
              IF hf_client = NULL
              THEN \* get_hf_client raises RuntimeError
                   Failed(posted, 500, "RuntimeError", InternalServerError)
              ELSE IF TTSRequest_validate(text) # "ok"
              THEN \* RequestValidationError
                   Failed(posted, 422, TTSRequest_validate(text),
                       <<"RequestValidationError">>)
              ELSE IF validate_text_for_tts(request_text) # "ok"
              THEN Failed(posted, 400, validate_text_for_tts(request_text),
                       validate_text_for_tts_message(validate_text_for_tts(request_text)))
              ELSE [started EXCEPT !.pc = "awaiting", !.calls = 1]]
    /\ UNCHANGED <<io_errors, phase, hf_client, llm_chain, conversation_memory,
                   conversation_memory_size, temp_audio>>

\* the TTS call raises e: text_to_speech wraps it in
\* TTSError(f"Text-to-speech conversion failed: {str(e)}"), answered 400
TtsRemoteRaises(t, e) ==
    /\ tasks[t].pc = "awaiting"
    /\ tasks[t].kind = "tts"
    /\ tasks' = [tasks EXCEPT ![t] =
           Failed(tasks[t], 400, "SynthesisFailed",
               <<"Text-to-speech conversion failed: ", e>>)]
    /\ UNCHANGED <<io_errors, phase, hf_client, llm_chain, conversation_memory,
                   conversation_memory_size, temp_audio, nextReq>>

\* the TTS call answers with bytes: empty audio is refused, else the audio is
\* saved under the name derived from the text and the file is the response
TtsRemoteReplies(t, audio_bytes) ==
    /\ tasks[t].pc = "awaiting"
    /\ tasks[t].kind = "tts"
    /\ IF ~(Len(audio_bytes) > 0)
       THEN /\ tasks' = [tasks EXCEPT ![t] =
                   Failed(tasks[t], 400, "SynthesisFailed",
                       <<"TTS returned empty audio">>)]
            /\ UNCHANGED temp_audio
       ELSE /\ temp_audio' = save_audio_file(temp_audio, audio_bytes,
                                 generate_audio_filename(tasks[t].input))
            /\ tasks' = [tasks EXCEPT ![t] =
                   Finished([tasks[t] EXCEPT !.audio = audio_bytes], 200, "none",
                       <<generate_audio_filename(tasks[t].input)>>)]
    /\ UNCHANGED <<io_errors, phase, hf_client, llm_chain, conversation_memory,
                   conversation_memory_size, nextReq>>

\* time passes: every file gets older
Tick ==
    /\ \E f \in DOMAIN temp_audio : temp_audio[f].age < MaxAge
    /\ temp_audio' = [f \in DOMAIN temp_audio |->
           [temp_audio[f] EXCEPT !.age =
               IF temp_audio[f].age < MaxAge THEN temp_audio[f].age + 1 ELSE MaxAge]]
    /\ UNCHANGED <<io_errors, phase, hf_client, llm_chain, conversation_memory,
                   conversation_memory_size, tasks, nextReq>>

Next ==
    \/ \E p \in LlmProviders : Startup(p)
    \/ \E order \in GlobOrders(temp_audio), failing \in SUBSET DOMAIN temp_audio :
           Shutdown(order, failing)
    \/ \E t \in Tasks, u \in RequestUserIds, m \in Messages : ChatStart(t, u, m)
    \/ \E t \in Tasks, e \in ProviderErrors : ChatRemoteRaises(t, e)
    \/ \E t \in Tasks, r \in Replies : ChatRemoteReplies(t, r)
    \/ \E t \in Tasks : Respond(t)
    \/ \E t \in Tasks : HealthCheck(t)
    \/ \E t \in Tasks, c \in UploadTypes, n \in UploadSizes : AsrStart(t, c, n)
    \/ \E t \in Tasks, e \in ProviderErrors : AsrRemoteRaises(t, e)
    \/ \E t \in Tasks, r \in AsrResults : AsrRemoteReplies(t, r)
    \/ \E t \in Tasks, x \in TtsTexts : TtsStart(t, x)
    \/ \E t \in Tasks, e \in ProviderErrors : TtsRemoteRaises(t, e)
    \/ \E t \in Tasks, a \in AudioReplies : TtsRemoteReplies(t, a)
    \/ Tick

Spec == Init /\ [][Next]_vars

\* a step of the handler task t that the event loop runs without waiting for
\* a new request: its remote call returns or raises, its response is sent
HandlerStep(t) ==
    \/ \E e \in ProviderErrors : ChatRemoteRaises(t, e)
    \/ \E r \in Replies : ChatRemoteReplies(t, r)
    \/ \E e \in ProviderErrors : AsrRemoteRaises(t, e)
    \/ \E r \in AsrResults : AsrRemoteReplies(t, r)
    \/ \E e \in ProviderErrors : TtsRemoteRaises(t, e)
    \/ \E a \in AudioReplies : TtsRemoteReplies(t, a)
    \/ Respond(t)

\* The service under the scheduling of its event loop: time passes and every
\* request in flight is eventually carried to its end. Nothing obliges a
\* client to send a request nor the operator to stop the service.
FairSpec ==
    /\ Spec
    /\ WF_vars(Tick)
    /\ \A t \in Tasks : WF_vars(HandlerStep(t))

----------------------------------------------------------------------------
\* Properties of the conversation store and the chat flow.

ChatTask(t) == tasks[t].kind = "chat"
ChatOk(t) == ChatTask(t) /\ tasks[t].pc = "done" /\ tasks[t].status = 200

\* the step completes the chat request of task t
ChatCompletes(t) ==
    /\ ChatTask(t)
    /\ tasks[t].pc = "awaiting"
    /\ tasks'[t].pc = "done"

\* the last k entries of h, all of h when it has no more than k
LastEntries(h, k) ==
    IF Len(h) <= k THEN h ELSE SubSeq(h, Len(h) - k + 1, Len(h))

\* the exchange of task t at position i, i + 1 of h
ExchangeAt(h, i, t) ==
    /\ i + 1 <= Len(h)
    /\ h[i] = HumanMessage(tasks[t].input, tasks[t].req)
    /\ h[i + 1] = AIMessage(tasks[t].reply, tasks[t].req)

HoldsExchange(h, t) == \E i \in 1..Len(h) : ExchangeAt(h, i, t)

WholePairs(h) ==
    /\ Len(h) % 2 = 0
    /\ \A i \in 1..Len(h) :
          IF i % 2 = 1
          THEN h[i].type = "human" /\ h[i + 1].req = h[i].req
          ELSE h[i].type = "ai"

PartsAt(p, kind) == {i \in 1..Len(p) : p[i].part = kind}

StepUser(t) ==
    IF tasks'[t].kind = "chat" THEN tasks'[t].user_id ELSE tasks[t].user_id

Messages_of(h) == {h[i] : i \in 1..Len(h)}

\* C8: a step of a chat request of user A, successful or not, leaves the
\* history of every other user B as it was (neither created, removed nor
\* changed), and the prompt it sends holds no message of B's history.
C8_HistoriesIsolated ==
    [][\A t \in Tasks :
          (tasks'[t] # tasks[t] /\ (ChatTask(t) \/ tasks'[t].kind = "chat")) =>
              \A B \in UserIds \ {StepUser(t)} :
                  /\ (B \in DOMAIN conversation_memory') =
                         (B \in DOMAIN conversation_memory)
                  /\ B \in DOMAIN conversation_memory =>
                         /\ conversation_memory'[B] = conversation_memory[B]
                         /\ tasks'[t].pc = "awaiting" =>
                                Messages_of(PromptHistory(tasks'[t].prompt)) \cap
                                    Messages_of(conversation_memory[B]) = {}
      ]_vars

\* C8 witness: user B has an exchange stored; a request of another user,
\* received later, is suspended with a prompt that carries no history.
C8_Witness ==
    \E t \in Tasks : \E B \in DOMAIN conversation_memory :
        /\ ChatTask(t) /\ tasks[t].pc = "awaiting"
        /\ B # tasks[t].user_id
        /\ Len(conversation_memory[B]) = 2
        /\ conversation_memory[B][1].req < tasks[t].req
        /\ PromptHistory(tasks[t].prompt) = <<>>

\* C9: while a chat request of user A is suspended on its remote call, a chat
\* request of another user B can start in a free task, and a suspended
\* request of B can receive its reply, append and complete: nothing A holds
\* blocks it.
C9_OtherUsersProceed ==
    \A t1 \in Tasks : \A t2 \in Tasks \ {t1} :
        (ChatTask(t1) /\ tasks[t1].pc = "awaiting") =>
            /\ (phase = "serving" /\ FreeTask(t2) /\ nextReq < MaxRequests) =>
                   \A u \in RequestUserIds : \A m \in Messages :
                       effective_user_id(u) # tasks[t1].user_id =>
                           ENABLED ChatStart(t2, u, m)
            /\ (ChatTask(t2) /\ tasks[t2].pc = "awaiting"
                   /\ tasks[t2].user_id # tasks[t1].user_id) =>
                   \A r \in Replies : ENABLED ChatRemoteReplies(t2, r)

\* C9 witness: B's request started after A's, was answered and appended to
\* B's history while A's request is still suspended.
C9_Witness ==
    \E t1 \in Tasks : \E t2 \in Tasks \ {t1} :
        /\ ChatTask(t1) /\ tasks[t1].pc = "awaiting"
        /\ ChatOk(t2)
        /\ tasks[t2].user_id # tasks[t1].user_id
        /\ tasks[t2].req > tasks[t1].req
        /\ Len(History(tasks[t2].user_id)) = 2

\* the reasons a validator refuses an upload or a text for
ValidationErrors == {"InvalidFormat", "TooLarge", "Empty", "TooLong"}

\* the request of task t was refused by a validator
Rejected(t) ==
    /\ tasks[t].kind \in {"asr", "tts"}
    /\ tasks[t].pc = "done"
    /\ tasks[t].error \in ValidationErrors

\* C10: a transcribe request whose upload the audio validator refuses, and a
\* synthesize request whose text the text validator refuses, has called its
\* remote endpoint zero times; a request suspended on its remote call has
\* passed validation and called once.
C10_ValidatorsFailFast ==
    \A t \in Tasks :
        /\ Rejected(t) => tasks[t].calls = 0
        /\ (tasks[t].kind = "asr" /\ tasks[t].pc = "awaiting") =>
               /\ validate_audio_file(tasks[t].content_type, tasks[t].size) = "ok"
               /\ tasks[t].calls = 1
        /\ (tasks[t].kind = "tts" /\ tasks[t].pc = "awaiting") =>
               /\ validate_text_for_tts(tasks[t].input) = "ok"
               /\ tasks[t].calls = 1

\* C10 witness: an upload refused for its content type and a text refused as
\* too long, both answered without a remote call.
C10_Witness ==
    \E t1 \in Tasks : \E t2 \in Tasks :
        /\ Rejected(t1) /\ tasks[t1].kind = "asr"
        /\ tasks[t1].error = "InvalidFormat" /\ tasks[t1].calls = 0
        /\ Rejected(t2) /\ tasks[t2].kind = "tts"
        /\ tasks[t2].error = "TooLong" /\ tasks[t2].calls = 0

----------------------------------------------------------------------------
\* Properties of the error answers.

\* the request of task t was ended by its remote endpoint: the call raised
\* (failure, timeout) or what it returned was empty
RemoteFailed(t) ==
    /\ tasks[t].pc = "done"
    /\ tasks[t].calls > 0
    /\ tasks[t].status # 200

\* the answer of task t carries text of the provider's error
LeaksProviderText(t) ==
    \E i \in 1..Len(tasks[t].detail) : tasks[t].detail[i] \in ProviderErrors

\* C11: a request that failed because its remote endpoint failed or returned
\* nothing is answered with a 5xx status and a message that holds no text of
\* the provider's error; a 4xx answer is given only to a request a validator
\* refused, before any remote call.
C11_RemoteFailureIs5xxGeneric ==
    \A t \in Tasks :
        /\ RemoteFailed(t) =>
               /\ tasks[t].status >= 500
               /\ ~LeaksProviderText(t)
        /\ (tasks[t].pc = "done" /\ tasks[t].status \in 400..499) =>
               /\ tasks[t].calls = 0
               /\ tasks[t].error \in ValidationErrors

----------------------------------------------------------------------------
\* Properties of the validators.

\* the upload of task t went through the audio validator
AudioValidated(t) ==
    /\ tasks[t].kind = "asr"
    /\ tasks[t].pc \in {"awaiting", "done"}
    /\ tasks[t].error # "RuntimeError"

\* the upload of task t passed the audio validator: the handler went on to
\* the remote call
AudioPassed(t) == tasks[t].calls = 1 /\ tasks[t].error \notin ValidationErrors

\* C12: the audio validator refuses an upload as InvalidFormat when its
\* content type is not in the allow-set, whatever its size; otherwise as
\* TooLarge when its size exceeds the ceiling of 25 MB, as Empty when its size
\* is zero, and lets it pass in every other case, a size of exactly the
\* ceiling included.
C12_AudioValidatorCases ==
    \A t \in Tasks :
        AudioValidated(t) =>
            LET ct == tasks[t].content_type
                n == tasks[t].size
                ceiling == 25 * 1024 * 1024
            IN /\ ct \notin allowed_audio_formats => tasks[t].error = "InvalidFormat"
               /\ (ct \in allowed_audio_formats /\ n > ceiling) =>
                      tasks[t].error = "TooLarge"
               /\ (ct \in allowed_audio_formats /\ n = 0) => tasks[t].error = "Empty"
               /\ (ct \in allowed_audio_formats /\ n > 0 /\ n <= ceiling) =>
                      AudioPassed(t)
               /\ tasks[t].error \in {"InvalidFormat", "TooLarge", "Empty"} =>
                      (tasks[t].status = 400 /\ tasks[t].calls = 0)

\* C12 witness: an audio/wav upload of exactly 25 MB has passed and is being
\* transcribed, and an upload of a disallowed type and size zero was refused
\* for its type.
C12_Witness ==
    \E t1 \in Tasks : \E t2 \in Tasks :
        /\ AudioValidated(t1) /\ AudioPassed(t1)
        /\ tasks[t1].content_type = "audio/wav"
        /\ tasks[t1].size = 26214400
        /\ AudioValidated(t2)
        /\ tasks[t2].content_type = "text/plain" /\ tasks[t2].size = 0
        /\ tasks[t2].error = "InvalidFormat"

\* the text of task t went through the text validator
TextValidated(t) ==
    /\ tasks[t].kind = "tts"
    /\ tasks[t].pc \in {"awaiting", "done"}
    /\ tasks[t].error # "RuntimeError"

\* s is empty or holds whitespace only
IsBlank(s) == \A i \in 1..Len(s) : s[i].ch \in Whitespace

\* s starts and ends with a character that is not whitespace
IsTrimmed(s) ==
    /\ s # <<>>
    /\ s[1].ch \notin Whitespace
    /\ s[Len(s)].ch \notin Whitespace

\* C13: a posted text that is empty or all-whitespace is refused as Empty, one
\* longer than the ceiling of 2000 characters as TooLong; every other text
\* passes, and what is then sent to synthesis is the posted text trimmed.
C13_TextValidatorCases ==
    \A t \in Tasks :
        TextValidated(t) =>
            LET text == tasks[t].text
            IN /\ (IsBlank(text) /\ len(text) <= 2000) =>
                      (tasks[t].error = "Empty" /\ tasks[t].calls = 0)
               /\ (~IsBlank(text) /\ len(text) > 2000) =>
                      (tasks[t].error = "TooLong" /\ tasks[t].calls = 0)
               /\ (~IsBlank(text) /\ len(text) <= 2000) =>
                      /\ tasks[t].calls = 1
                      /\ tasks[t].error \notin ValidationErrors
                      /\ tasks[t].input = strip(text)
                      /\ IsTrimmed(tasks[t].input)

\* C13 witness: a padded text was accepted and is being synthesized trimmed,
\* and a text of 2001 characters, 2000 without its leading blank, was refused
\* as too long.
C13_Witness ==
    \E t1 \in Tasks : \E t2 \in Tasks :
        /\ TextValidated(t1) /\ tasks[t1].pc = "awaiting"
        /\ tasks[t1].text = PADDED_TEXT
        /\ tasks[t1].input = <<Run("b", 2)>>
        /\ TextValidated(t2) /\ tasks[t2].error = "TooLong"
        /\ len(tasks[t2].text) = 2001
        /\ len(strip(tasks[t2].text)) = 2000

----------------------------------------------------------------------------
\* Properties of the temporary audio files.

\* the step completes the synthesize request of task t with a saved file
TtsSaves(t) ==
    /\ tasks[t].kind = "tts"
    /\ tasks[t].pc = "awaiting"
    /\ tasks'[t].pc = "done"
    /\ tasks'[t].status = 200

\* task t was answered with a synthesized file
TtsOk(t) == tasks[t].kind = "tts" /\ tasks[t].pc = "done" /\ tasks[t].status = 200

\* C14: a save targets the file named audio_<digest of the text>.wav, the same
\* name for the same text; after it that one file holds the bytes of this
\* save (a second save for the same text replaces the first), no file is
\* added besides it, and every file of another name is as it was.
C14_SameTextSameFile ==
    [][\A t \in Tasks :
          TtsSaves(t) =>
              LET name == [prefix |-> "audio_", md5_12 |-> tasks[t].input,
                           suffix |-> ".wav"]
              IN /\ tasks'[t].body = <<name>>
                 /\ DOMAIN temp_audio' = DOMAIN temp_audio \cup {name}
                 /\ temp_audio'[name].content = tasks'[t].audio
                 /\ \A f \in DOMAIN temp_audio \ {name} :
                        temp_audio'[f] = temp_audio[f]
                 /\ \A s \in Tasks \ {t} :
                        (TtsOk(s) /\ tasks[s].input = tasks[t].input) =>
                            tasks[s].body = tasks'[t].body
      ]_vars

\* C14 witness: two requests for the same text were answered with different
\* audio under the same name; there is one file, holding the audio of one of
\* them and not that of the other.
C14_Witness ==
    \E t1 \in Tasks : \E t2 \in Tasks \ {t1} :
        /\ TtsOk(t1) /\ TtsOk(t2)
        /\ tasks[t1].input = tasks[t2].input
        /\ tasks[t1].body = tasks[t2].body
        /\ tasks[t1].audio # tasks[t2].audio
        /\ Cardinality(DOMAIN temp_audio) = 1
        /\ temp_audio[tasks[t2].body[1]].content = tasks[t2].audio

\* the step is the shutdown of the service, which reaps with maximum age 0
ShutdownReaps == phase = "serving" /\ phase' = "stopped"

\* C15: the reap of the shutdown, called with a maximum age of zero, deletes
\* every file, one written at the instant of the reap included: when no
\* file operation failed, no audio_*.wav file is left.
C15_ReapZeroDeletesAll ==
    [][(ShutdownReaps /\ io_errors' = {}) => DOMAIN temp_audio' = {}]_vars

\* C16: a failure on one file does not end the scan: the reap deletes every
\* file older than the maximum age, except those whose own inspection or
\* deletion failed, and returns without raising.
C16_ReapBestEffortPerFile ==
    [][ShutdownReaps =>
          \A f \in DOMAIN temp_audio :
              (temp_audio[f].age > 0 /\ f \notin io_errors') =>
                  f \notin DOMAIN temp_audio'
      ]_vars

\* the names a synthesize request can save its audio under
AudioFileNames ==
    {generate_audio_filename(strip(x)) :
        x \in {y \in TtsTexts : TTSRequest_validate(y) = "ok"}}

\* file f was written for a synthesize request whose response has been sent,
\* and the service is running
Served(f) ==
    /\ phase = "serving"
    /\ f \in DOMAIN temp_audio
    /\ \A t \in Tasks : tasks[t].pc = "done" => tasks[t].body # <<f>>

\* C17: a file written for a synthesize request is, once its response has
\* been sent, eventually deleted while the service runs: a running service
\* does not keep it until it is shut down.
C17_ServedFileEventuallyDeleted ==
    \A f \in AudioFileNames :
        Served(f) ~> (f \notin DOMAIN temp_audio \/ phase = "stopped")

----------------------------------------------------------------------------
\* Properties of the remote calls.

AsrAnswered(t) ==
    /\ tasks[t].kind = "asr"
    /\ tasks[t].pc = "done"
    /\ tasks[t].shape # "none"

\* C19: the transcription adapter takes the text of an object with a text
\* field and a bare string alike; when that text is not blank the request
\* succeeds with the text trimmed, never empty, and language "en"; when the
\* remote call raised or the text is blank it fails with the transcription
\* error and returns no text.
C19_TranscriptionNormalised ==
    \A t \in Tasks :
        /\ AsrAnswered(t) =>
               LET given == IF tasks[t].shape = "dict_without_text"
                            THEN <<>> ELSE tasks[t].reply
               IN IF IsBlank(given)
                  THEN /\ tasks[t].status # 200
                       /\ tasks[t].error = "TranscriptionFailed"
                       /\ tasks[t].body = <<>>
                  ELSE /\ tasks[t].status = 200
                       /\ tasks[t].body = strip(given)
                       /\ IsTrimmed(tasks[t].body)
                       /\ tasks[t].language = "en"
        /\ (tasks[t].kind = "asr" /\ tasks[t].pc = "done" /\ tasks[t].calls = 1
               /\ tasks[t].shape = "none") =>
               (tasks[t].status # 200 /\ tasks[t].error = "TranscriptionFailed")
        /\ (tasks[t].kind = "asr" /\ tasks[t].status = 200) =>
               (tasks[t].body # <<>> /\ tasks[t].language = "en")

\* C19 witness: one transcription answered as an object and one answered as
\* a bare string, both padded, both returned trimmed with language "en".
C19_Witness ==
    \E t1 \in Tasks : \E t2 \in Tasks :
        /\ AsrAnswered(t1) /\ tasks[t1].shape = "dict"
        /\ AsrAnswered(t2) /\ tasks[t2].shape = "str"
        /\ tasks[t1].reply = PADDED_TEXT /\ tasks[t2].reply = PADDED_TEXT
        /\ tasks[t1].status = 200 /\ tasks[t2].status = 200
        /\ tasks[t1].body = <<Run("b", 2)>> /\ tasks[t2].body = <<Run("b", 2)>>
        /\ tasks[t1].language = "en" /\ tasks[t2].language = "en"

----------------------------------------------------------------------------
\* Properties of the health operation.

\* the step answers a health request in task t
HealthAnswers(t) == tasks[t].pc = "idle" /\ tasks'[t].kind = "health"

\* C20: a health request, at whatever point of the life of the process, is
\* answered 200 at once, with status healthy when both the ASR client handle
\* and the chat client handle are set at that moment, and degraded otherwise.
C20_HealthReportsHandles ==
    [][\A t \in Tasks :
          HealthAnswers(t) =>
              /\ tasks'[t].pc = "done"
              /\ tasks'[t].status = 200
              /\ tasks'[t].error = "none"
              /\ tasks'[t].body[1].status =
                     IF hf_client # NULL /\ llm_chain # NULL
                     THEN "healthy" ELSE "degraded"
      ]_vars

\* C20 witness: a health request answered degraded before initialization,
\* a later one answered healthy while serving.
C20_Witness ==
    \E t1 \in Tasks : \E t2 \in Tasks :
        /\ phase = "serving"
        /\ tasks[t1].kind = "health" /\ tasks[t2].kind = "health"
        /\ tasks[t1].pc = "done" /\ tasks[t2].pc = "done"
        /\ tasks[t1].req < tasks[t2].req
        /\ tasks[t1].body[1].status = "degraded"
        /\ tasks[t2].body[1].status = "healthy"

\* a health request was answered degraded after the shutdown cleanup
C20_WitnessAfterShutdown ==
    \E t \in Tasks :
        /\ phase = "stopped"
        /\ tasks[t].kind = "health" /\ tasks[t].pc = "done"
        /\ tasks[t].status = 200
        /\ tasks[t].body[1].status = "degraded"

----------------------------------------------------------------------------
\* Properties of the user identifier.

\* the step starts the chat request of task t
ChatStarts(t) == tasks[t].pc = "idle" /\ tasks'[t].kind = "chat"

\* C21: a chat request without user_id and one with the empty user_id both
\* work on the history of "default", every other user_id on the history of
\* its own name; the start of a request creates that history empty when it
\* does not exist, leaves it as it is when it exists, loads it into the
\* prompt, and no history is ever kept under the absent or the empty id.
C21_DefaultUserId ==
    [][\A t \in Tasks :
          ChatStarts(t) =>
              LET r == tasks'[t].request_user_id
                  u == tasks'[t].user_id
              IN /\ tasks'[t].pc = "awaiting"
                 /\ r \in {NULL, ""} => u = "default"
                 /\ r \notin {NULL, ""} => u = r
                 /\ DOMAIN conversation_memory' = DOMAIN conversation_memory \cup {u}
                 /\ conversation_memory'[u] =
                        IF u \in DOMAIN conversation_memory
                        THEN conversation_memory[u] ELSE <<>>
                 /\ \A v \in DOMAIN conversation_memory :
                        conversation_memory'[v] = conversation_memory[v]
                 /\ PromptHistory(tasks'[t].prompt) = conversation_memory'[u]
                 /\ NULL \notin DOMAIN conversation_memory'
                 /\ "" \notin DOMAIN conversation_memory'
      ]_vars

\* C21 witness: a request without user_id and a later one with the empty
\* user_id are both suspended on the history of "default", the only history
\* there is; the later one found it already created.
C21_Witness ==
    \E t1 \in Tasks : \E t2 \in Tasks :
        /\ ChatTask(t1) /\ tasks[t1].pc = "awaiting"
        /\ ChatTask(t2) /\ tasks[t2].pc = "awaiting"
        /\ tasks[t1].request_user_id = NULL
        /\ tasks[t2].request_user_id = ""
        /\ tasks[t1].req < tasks[t2].req
        /\ tasks[t1].user_id = "default" /\ tasks[t2].user_id = "default"
        /\ DOMAIN conversation_memory = {"default"}

\* a request with the empty user_id was started on the history of "default"
\* that holds the exchange of an earlier request
C21_WitnessKept ==
    \E t \in Tasks :
        /\ ChatTask(t) /\ tasks[t].pc = "awaiting"
        /\ tasks[t].request_user_id = ""
        /\ Len(History("default")) = 2
        /\ PromptHistory(tasks[t].prompt) = History("default")

----------------------------------------------------------------------------
\* Properties of the startup.

\* C22: whichever llm_provider the settings accept, the startup completes
\* without raising: the service is serving and both the ASR client handle
\* and the chat client handle are set.
C22_EveryProviderInitialises ==
    [][\A p \in LlmProviders :
          Startup(p) =>
              /\ phase' = "serving"
              /\ hf_client' # NULL
              /\ llm_chain' # NULL
      ]_vars

====
